---- MODULE Spec2Model ----
(***************************************************************************)
(* Schedule parsing and recurrence engine of the yoga-studio booking       *)
(* backend (ScheduleParserService) and the registration capacity logic     *)
(* that depends on it (RegistrationService).                               *)
(*                                                                         *)
(* A Python str is modelled as a sequence of one-character strings, a      *)
(* datetime.date as its day number counted from Monday 2024-04-29, and an  *)
(* ISO date string as the triple <<year, month, day>> it spells.           *)
(***************************************************************************)
EXTENDS Integers, Sequences, FiniteSets, TLC

\* ------------------------------------------------------------------------
\* Bounds of the model
\* ------------------------------------------------------------------------
\* hours 0..MaxHour are written into the generated schedule strings
MaxHour == 25
\* free-form inputs are all token sequences of at most MaxTokens tokens
MaxTokens == 3
\* day lists of at most MaxDayTokens tokens are written into the inputs
MaxDayTokens == 2
\* today, from_date and start_date range over the days 0..MaxDate
MaxDate == 2
\* a stored record lists at most MaxRecordDays weekdays
MaxRecordDays == 2
\* get_next_available_dates is asked for at most MaxLimit dates
MaxLimit == 2
\* a class has a capacity of 1..MaxCapacity
MaxCapacity == 2
\* booking requests 1..MaxRequests may be in flight together
MaxRequests == 2

\* ------------------------------------------------------------------------
\* Characters and strings
\* ------------------------------------------------------------------------
UpperChars == <<"A","B","C","D","E","F","G","H","I","J","K","L","M",
                "N","O","P","Q","R","S","T","U","V","W","X","Y","Z">>
LowerChars == <<"a","b","c","d","e","f","g","h","i","j","k","l","m",
                "n","o","p","q","r","s","t","u","v","w","x","y","z">>
DigitChars == <<"0","1","2","3","4","5","6","7","8","9">>

\* Python's None (and the empty str, which is falsy in the same way)
None == <<>>

UpperSet == {UpperChars[i] : i \in 1..26}
LowerSet == {LowerChars[i] : i \in 1..26}
DigitSet == {DigitChars[i] : i \in 1..10}
LowerOf == [c \in UpperSet |-> LowerChars[CHOOSE i \in 1..26 : UpperChars[i] = c]]
UpperOf == [c \in LowerSet |-> UpperChars[CHOOSE i \in 1..26 : LowerChars[i] = c]]
DigitValOf == [c \in DigitSet |-> (CHOOSE i \in 1..10 : DigitChars[i] = c) - 1]

IsSpace(c) == c \in {" ", "\t"}
IsDigit(c) == c \in DigitSet
IsLower(c) == c \in LowerSet
IsUpper(c) == c \in UpperSet

lower_char(c) == IF IsUpper(c) THEN LowerOf[c] ELSE c
upper_char(c) == IF IsLower(c) THEN UpperOf[c] ELSE c

\* str.lower(), str.upper()
lower(s) == [i \in 1..Len(s) |-> lower_char(s[i])]
upper(s) == [i \in 1..Len(s) |-> upper_char(s[i])]

SetMin(S) == CHOOSE x \in S : \A y \in S : x <= y
SetMax(S) == CHOOSE x \in S : \A y \in S : y <= x

\* str.strip(): drop leading and trailing whitespace
strip(s) ==
  LET keep == {i \in 1..Len(s) : ~IsSpace(s[i])}
  IN  IF keep = {} THEN <<>> ELSE SubSeq(s, SetMin(keep), SetMax(keep))

\* the character at position p, or "" past either end of the string
At(s, p) == IF p >= 1 /\ p <= Len(s) THEN s[p] ELSE ""

DigitVal(c) == DigitValOf[c]

IsNumeral(s) == Len(s) > 0 /\ \A i \in 1..Len(s) : IsDigit(s[i])

\* int(s) for a string of decimal digits
RECURSIVE int(_)
int(s) ==
  IF Len(s) = 0 THEN 0
  ELSE 10 * int(SubSeq(s, 1, Len(s) - 1)) + DigitVal(s[Len(s)])

\* str(n) for n >= 0
RECURSIVE str(_)
str(n) ==
  IF n < 10 THEN <<DigitChars[n + 1]>>
  ELSE str(n \div 10) \o <<DigitChars[(n % 10) + 1]>>

\* f"{n:02d}" for n >= 0
fmt02d(n) == IF n < 10 THEN <<"0">> \o str(n) ELSE str(n)

\* sep.join(parts)
RECURSIVE join(_, _)
join(sep, parts) ==
  IF Len(parts) = 0 THEN <<>>
  ELSE IF Len(parts) = 1 THEN parts[1]
  ELSE parts[1] \o sep \o join(sep, Tail(parts))

\* str.split(sep) for a one-character separator
RECURSIVE split(_, _)
split(s, sep) ==
  LET hits == {i \in 1..Len(s) : s[i] = sep}
  IN  IF hits = {} THEN <<s>>
      ELSE LET i == SetMin(hits)
           IN  <<SubSeq(s, 1, i - 1)>> \o split(SubSeq(s, i + 1, Len(s)), sep)

\* re.split(r'[/,]+', s): split on every maximal run of '/' and ','
RECURSIVE re_split_days(_)
re_split_days(s) ==
  LET hits == {i \in 1..Len(s) : s[i] \in {"/", ","}}
  IN  IF hits = {} THEN <<s>>
      ELSE LET i == SetMin(hits)
               after == {j \in i..Len(s) : s[j] \notin {"/", ","}}
               j == IF after = {} THEN Len(s) + 1 ELSE SetMin(after)
           IN  <<SubSeq(s, 1, i - 1)>> \o re_split_days(SubSeq(s, j, Len(s)))

\* ------------------------------------------------------------------------
\* Regular-expression pieces shared by the patterns
\* ------------------------------------------------------------------------
\* \s* from each position of P: every position reachable over whitespace
ws_star(s, P) ==
  {q \in 1..Len(s) + 1 :
     \E p \in P : p <= q /\ \A i \in p..q - 1 : IsSpace(s[i])}

\* [APap][Mm] at position p
ampm_at(s, p) ==
  /\ lower_char(At(s, p)) \in {"a", "p"}
  /\ lower_char(At(s, p + 1)) = "m"

\* \d{1,2}:\d{2} at position p: the position after it, or 0 when it fails
time_end(s, p) ==
  IF /\ IsDigit(At(s, p)) /\ IsDigit(At(s, p + 1)) /\ At(s, p + 2) = ":"
     /\ IsDigit(At(s, p + 3)) /\ IsDigit(At(s, p + 4))
  THEN p + 5
  ELSE IF /\ IsDigit(At(s, p)) /\ At(s, p + 1) = ":"
          /\ IsDigit(At(s, p + 2)) /\ IsDigit(At(s, p + 3))
       THEN p + 4
       ELSE 0

\* ------------------------------------------------------------------------
\* Day names
\* ------------------------------------------------------------------------
day == <<"d","a","y">>
mon == <<"m","o","n">>
tue == <<"t","u","e">>
wed == <<"w","e","d">>
thu == <<"t","h","u">>
fri == <<"f","r","i">>
sat == <<"s","a","t">>
sun == <<"s","u","n">>
tues == tue \o <<"s">>
thurs == thu \o <<"r","s">>
monday == mon \o day
tuesday == tues \o day
wednesday == wed \o <<"n","e","s">> \o day
thursday == thurs \o day
friday == fri \o day
saturday == sat \o <<"u","r">> \o day
sunday == sun \o day

\* 'Mon' from 'mon'
capitalize(s) ==
  [i \in 1..Len(s) |-> IF i = 1 THEN upper_char(s[i]) ELSE lower_char(s[i])]

DAYS_MAP ==
  (monday :> 0) @@ (mon :> 0) @@
  (tuesday :> 1) @@ (tue :> 1) @@ (tues :> 1) @@
  (wednesday :> 2) @@ (wed :> 2) @@
  (thursday :> 3) @@ (thu :> 3) @@ (thurs :> 3) @@
  (friday :> 4) @@ (fri :> 4) @@
  (saturday :> 5) @@ (sat :> 5) @@
  (sunday :> 6) @@ (sun :> 6)

DAY_ABBREVS == <<capitalize(mon), capitalize(tue), capitalize(wed),
                 capitalize(thu), capitalize(fri), capitalize(sat),
                 capitalize(sun)>>

\* the seven full lowercase weekday names, Monday first
WeekdayNames ==
  <<monday, tuesday, wednesday, thursday, friday, saturday, sunday>>

get_day_name_from_number(weekday) ==
  IF 0 <= weekday /\ weekday <= 6 THEN WeekdayNames[weekday + 1] ELSE monday

\* ------------------------------------------------------------------------
\* normalize_schedule
\* ------------------------------------------------------------------------
\* the outcome of a call: the value returned, or an exception raised
Returned(v) == [raised |-> FALSE, value |-> v]
Raised == [raised |-> TRUE, value |-> <<>>]

day_name_map ==
  (monday :> capitalize(mon)) @@ (mon :> capitalize(mon)) @@
  (tuesday :> capitalize(tue)) @@ (tue :> capitalize(tue)) @@
  (tues :> capitalize(tue)) @@
  (wednesday :> capitalize(wed)) @@ (wed :> capitalize(wed)) @@
  (thursday :> capitalize(thu)) @@ (thu :> capitalize(thu)) @@
  (thurs :> capitalize(thu)) @@
  (friday :> capitalize(fri)) @@ (fri :> capitalize(fri)) @@
  (saturday :> capitalize(sat)) @@ (sat :> capitalize(sat)) @@
  (sunday :> capitalize(sun)) @@ (sun :> capitalize(sun))

\* [a-z/,\s] under (?i)
IsDaysChar(c) == IsLower(c) \/ IsUpper(c) \/ c \in {"/", ","} \/ IsSpace(c)

\* (?:\s*-\s*\d{1,2}:\d{2}(?:\s*[APap][Mm])?)? from each position of P
opt_range(s, P) ==
  LET dash == {p + 1 : p \in {q \in ws_star(s, P) : At(s, q) = "-"}}
      ends == {time_end(s, p) : p \in ws_star(s, dash)} \ {0}
      marked == {p + 2 : p \in {q \in ws_star(s, ends) : ampm_at(s, q)}}
  IN  P \cup ends \cup marked

\* (?:[APap][Mm])? from each position of P
opt_ampm(s, P) == P \cup {p + 2 : p \in {q \in P : ampm_at(s, q)}}

\* what follows the start time, from position p to the end of the text:
\* \s*(?:[APap][Mm])?(?:\s*-\s*\d{1,2}:\d{2}(?:\s*[APap][Mm])?)?\s*([APap][Mm])?\s*$
normalize_tail(s, p) ==
  (Len(s) + 1) \in
    ws_star(s, opt_ampm(s, ws_star(s,
      opt_range(s, opt_ampm(s, ws_star(s, {p}))))))

\* re.match of the days + time pattern: group 1 is text[1..i] for the least
\* i (lazy +?), \s+ is text[i+1..j] and group 2 starts at j+1
normalize_match(text) ==
  LET n == Len(text)
      times == {t \in 3..n : /\ time_end(text, t) # 0
                             /\ normalize_tail(text, time_end(text, t))}
      fits(i, t) == /\ i + 1 < t
                    /\ \A k \in 1..i : IsDaysChar(text[k])
                    /\ \A k \in i + 1..t - 1 : IsSpace(text[k])
      ends == {i \in 1..n : \E t \in times : fits(i, t)}
  IN  IF ends = {} THEN [matched |-> FALSE, days |-> <<>>, time |-> <<>>]
      ELSE LET i == SetMin(ends)
               t == CHOOSE t \in times : fits(i, t)
           IN  [matched |-> TRUE,
                days |-> SubSeq(text, 1, i),
                time |-> SubSeq(text, t, time_end(text, t) - 1)]

\* re.search(r'(?i)([ap]m)', text): the first AM/PM token, upper-cased
ampm_search(text) ==
  LET hits == {p \in 1..Len(text) : ampm_at(text, p)}
  IN  IF hits = {} THEN None
      ELSE upper(SubSeq(text, SetMin(hits), SetMin(hits) + 1))

\* day_abbrevs_of, appending the capitalised token instead of its abbreviation
RECURSIVE day_abbrevs_of_unmapped(_)
day_abbrevs_of_unmapped(tokens) ==
  IF Len(tokens) = 0 THEN <<>>
  ELSE LET tok == lower(strip(tokens[1]))
       IN  (IF tok \in DOMAIN day_name_map THEN <<capitalize(tok)>>
            ELSE <<>>) \o day_abbrevs_of_unmapped(Tail(tokens))

\* the abbreviations of the tokens that are known day names, in order
RECURSIVE day_abbrevs_of(_)
day_abbrevs_of(tokens) ==
  IF Len(tokens) = 0 THEN <<>>
  ELSE LET tok == lower(strip(tokens[1]))
       IN  (IF tok \in DOMAIN day_name_map THEN <<day_name_map[tok]>>
            ELSE <<>>) \o day_abbrevs_of(Tail(tokens))

AM == <<"A","M">>
PM == <<"P","M">>

\* normalize_hour_24, adding 12 to every PM hour and keeping 12 AM as 12
normalize_hour_24_plain(hour, ampm_token) ==
  IF ampm_token = PM THEN hour + 12 ELSE hour

\* the 24-hour hour of a 12-hour hour and its AM/PM token (None: 24-hour)
normalize_hour_24(hour, ampm_token) ==
  IF ampm_token # None
  THEN IF ampm_token = PM /\ hour # 12 THEN hour + 12
       ELSE IF ampm_token = AM /\ hour = 12 THEN 0
       ELSE hour
  ELSE hour

\* normalize_display, leaving the afternoon hours unreduced
normalize_display_unreduced(hour_24) ==
  IF hour_24 = 0 THEN <<12, AM>>
  ELSE IF hour_24 < 12 THEN <<hour_24, AM>>
  ELSE IF hour_24 = 12 THEN <<12, PM>>
  ELSE <<hour_24, PM>>

\* 24h -> 12h AM/PM: <<display_hour, suffix>>
normalize_display(hour_24) ==
  IF hour_24 = 0 THEN <<12, AM>>
  ELSE IF hour_24 < 12 THEN <<hour_24, AM>>
  ELSE IF hour_24 = 12 THEN <<12, PM>>
  ELSE <<hour_24 - 12, PM>>

\* as_is, returning the stripped text instead of the argument
as_is_stripped(schedule, text) == Returned(text)

\* "return schedule": what cannot be parsed is returned as it came in
as_is(schedule, text) == Returned(schedule)

normalize_schedule(schedule) ==
  IF schedule = None \/ strip(schedule) = <<>> THEN Returned(schedule)
  ELSE
    LET text == strip(schedule)
        m == normalize_match(text)
    IN
    IF ~m.matched THEN as_is(schedule, text)
    ELSE
      LET ampm_token == ampm_search(text)
          day_abbrevs == day_abbrevs_of(re_split_days(m.days))
          parts == split(m.time, ":")
      IN
      IF day_abbrevs = <<>> THEN as_is(schedule, text)
      ELSE IF Len(parts) # 2 \/ \E i \in 1..Len(parts) : ~IsNumeral(parts[i])
      THEN Raised
      ELSE
        LET hour == int(parts[1])
            minute == int(parts[2])
            shown == normalize_display(normalize_hour_24(hour, ampm_token))
        IN  Returned(join(<<"/">>, day_abbrevs) \o <<" ">> \o str(shown[1])
                     \o <<":">> \o fmt02d(minute) \o <<" ">> \o shown[2])

\* CANONICAL_RE.match(s):
\* ^(Mon|Tue|Wed|Thu|Fri|Sat|Sun)(/(Mon|...|Sun))* \d{1,2}:\d{2} (AM|PM)$
CANONICAL_RE(s) ==
  LET parts == split(s, " ")
  IN  /\ Len(parts) = 3
      /\ \A i \in 1..Len(split(parts[1], "/")) :
           \E k \in 1..7 : split(parts[1], "/")[i] = DAY_ABBREVS[k]
      /\ time_end(parts[2], 1) = Len(parts[2]) + 1
      /\ parts[3] \in {AM, PM}

\* ------------------------------------------------------------------------
\* Dates: day numbers, day 0 = Monday 2024-04-29
\* ------------------------------------------------------------------------
Epoch == <<2024, 4, 29>>

is_leap(y) == (y % 4 = 0 /\ y % 100 # 0) \/ y % 400 = 0

days_in_month(y, m) ==
  IF m = 2 THEN (IF is_leap(y) THEN 29 ELSE 28)
  ELSE IF m \in {4, 6, 9, 11} THEN 30 ELSE 31

\* the date k days after the first day of month m of year y
RECURSIVE ymd_from(_, _, _)
ymd_from(y, m, k) ==
  IF k < days_in_month(y, m) THEN <<y, m, k + 1>>
  ELSE IF m = 12 THEN ymd_from(y + 1, 1, k - days_in_month(y, m))
  ELSE ymd_from(y, m + 1, k - days_in_month(y, m))

\* the number of days from the first day of the epoch's month to the first
\* day of month m of year y
RECURSIVE days_before(_, _)
days_before(y, m) ==
  IF y = Epoch[1] /\ m = Epoch[2] THEN 0
  ELSE IF m = 1 THEN days_before(y - 1, 12) + days_in_month(y - 1, 12)
  ELSE days_before(y, m - 1) + days_in_month(y, m - 1)

\* date.isoformat() and date.fromisoformat()
isoformat(d) == ymd_from(Epoch[1], Epoch[2], d + Epoch[3] - 1)
fromisoformat(iso) == days_before(iso[1], iso[2]) + iso[3] - Epoch[3]

\* date.replace(day=1)
replace_day_1(d) == d - (isoformat(d)[3] - 1)

\* ------------------------------------------------------------------------
\* parse_schedule_string
\* ------------------------------------------------------------------------
default_timezone == "America/New_York"

\* fields a Python dict does not carry are None here
create_empty_schedule ==
  [type |-> "custom",
   original_schedule |-> <<>>,
   pattern |-> [days |-> <<>>, time |-> None, duration_minutes |-> 0,
                timezone |-> "", description |-> None],
   date_range |-> [start_date |-> None, end_date |-> None],
   exceptions |-> {}]

create_basic_schedule(original_schedule, today) ==
  [type |-> "custom",
   original_schedule |-> original_schedule,
   pattern |-> [days |-> <<>>, time |-> None, duration_minutes |-> 0,
                timezone |-> "", description |-> original_schedule],
   date_range |-> [start_date |-> isoformat(today), end_date |-> None],
   exceptions |-> {}]

\* [a-z/]
IsSlashDaysChar(c) == IsLower(c) \/ c = "/"

NoMatch == [matched |-> FALSE, start |-> 0, groups |-> <<>>]

\* ([a-z/]+)\s+(\d{1,2}):(\d{2}) at position p: group 1 is s[p..e], \s+ is
\* s[e+1..t-1] and the time starts at t; <<e, t>> or <<>> when it fails
pattern_head(s, p) ==
  LET n == Len(s)
      fits(e, t) == /\ e + 1 < t
                    /\ \A k \in p..e : IsSlashDaysChar(s[k])
                    /\ \A k \in e + 1..t - 1 : IsSpace(s[k])
      found == {et \in (p..n) \X {t \in p + 2..n : time_end(s, t) # 0} :
                  fits(et[1], et[2])}
  IN  IF found = {} THEN <<>>
      ELSE CHOOSE et \in found : \A o \in found : o[1] <= et[1]

\* the hour and minute groups of the \d{1,2}:\d{2} that starts at p
time_groups(s, p) ==
  <<SubSeq(s, p, time_end(s, p) - 4),
    SubSeq(s, time_end(s, p) - 2, time_end(s, p) - 1)>>

\* the three patterns, tried at position p
pattern_at(i, s, p) ==
  LET h == pattern_head(s, p)
  IN
  IF h = <<>> THEN NoMatch
  ELSE
    LET q == time_end(s, h[2])
        head == <<SubSeq(s, p, h[1])>> \o time_groups(s, h[2])
    IN
    IF i = 0 THEN
      \* \s*-\s*(\d{1,2}):(\d{2})
      LET dash == {d + 1 : d \in {x \in ws_star(s, {q}) : At(s, x) = "-"}}
          t2 == {x \in ws_star(s, dash) : time_end(s, x) # 0}
      IN  IF t2 = {} THEN NoMatch
          ELSE [matched |-> TRUE, start |-> p,
                groups |-> head \o time_groups(s, SetMin(t2))]
    ELSE IF i = 1 THEN
      \* \s*(am|pm)
      LET a == {x \in ws_star(s, {q}) :
                  At(s, x) \in {"a", "p"} /\ At(s, x + 1) = "m"}
      IN  IF a = {} THEN NoMatch
          ELSE [matched |-> TRUE, start |-> p,
                groups |-> head \o <<SubSeq(s, SetMin(a), SetMin(a) + 1)>>]
    ELSE
      \* \s*$
      IF (Len(s) + 1) \in ws_star(s, {q})
      THEN [matched |-> TRUE, start |-> p, groups |-> head]
      ELSE NoMatch

\* re.search(patterns[i], s): the match at the leftmost position that has one
pattern_search(i, s) ==
  LET starts == {p \in 1..Len(s) : pattern_at(i, s, p).matched}
  IN  IF starts = {} THEN NoMatch ELSE pattern_at(i, s, SetMin(starts))

\* days_of, appending the matched token instead of the weekday's full name
RECURSIVE days_of_unmapped(_)
days_of_unmapped(day_names) ==
  IF Len(day_names) = 0 THEN <<>>
  ELSE LET day_name == strip(day_names[1])
       IN  (IF day_name \in DOMAIN DAYS_MAP THEN <<day_name>> ELSE <<>>)
             \o days_of_unmapped(Tail(day_names))

\* the full names of the tokens that are keys of DAYS_MAP, in order
RECURSIVE days_of(_)
days_of(day_names) ==
  IF Len(day_names) = 0 THEN <<>>
  ELSE LET day_name == strip(day_names[1])
       IN  (IF day_name \in DOMAIN DAYS_MAP
            THEN <<get_day_name_from_number(DAYS_MAP[day_name])>>
            ELSE <<>>) \o days_of(Tail(day_names))

\* parse_duration, without the fallback for a range that does not advance
parse_duration_unchecked(start_hour, start_minute, end_hour, end_minute) ==
  (int(end_hour) * 60 + int(end_minute))
    - (int(start_hour) * 60 + int(start_minute))

\* the duration of the range start..end, 60 when it is not positive
parse_duration(start_hour, start_minute, end_hour, end_minute) ==
  LET duration_minutes ==
        (int(end_hour) * 60 + int(end_minute))
          - (int(start_hour) * 60 + int(start_minute))
  IN  IF duration_minutes <= 0 THEN 60 ELSE duration_minutes

\* the 24-hour hour of the matched hour and its am/pm group (None: 24-hour)
parse_hour_24(hour, ampm) ==
  IF ampm # None
  THEN IF ampm = lower(PM) /\ int(hour) # 12 THEN int(hour) + 12
       ELSE IF ampm = lower(AM) /\ int(hour) = 12 THEN 0
       ELSE int(hour)
  ELSE int(hour)

\* the loop over the patterns: the first pattern that matches, and its match
first_match(m0, m1, m2) ==
  IF m0.matched THEN [pattern_type |-> 0, match |-> m0]
  ELSE IF m1.matched THEN [pattern_type |-> 1, match |-> m1]
  ELSE [pattern_type |-> 2, match |-> m2]

\* parse_schedule_string once a pattern has matched with groups g
parse_groups(schedule, today, pattern_type, g) ==
  LET days_str == g[1]
      hour == g[2]
      minute == g[3]
      ampm == IF pattern_type = 1 THEN g[4] ELSE None
      duration_minutes ==
        IF pattern_type = 0 THEN parse_duration(g[2], g[3], g[4], g[5])
        ELSE 60
      days == days_of(split(days_str, "/"))
  IN
  IF days = <<>> THEN Returned(create_basic_schedule(schedule, today))
  ELSE IF \/ ~IsNumeral(hour)
          \/ pattern_type = 0 /\ \E i \in 2..5 : ~IsNumeral(g[i])
  THEN Raised
  ELSE Returned(
    [type |-> "weekly_recurring",
     original_schedule |-> None,
     pattern |-> [days |-> days,
                  time |-> fmt02d(parse_hour_24(hour, ampm))
                             \o <<":">> \o minute,
                  duration_minutes |-> duration_minutes,
                  timezone |-> default_timezone,
                  description |-> None],
     date_range |-> [start_date |-> isoformat(replace_day_1(today)),
                     end_date |-> None],
     exceptions |-> {}])

\* parse_schedule_string of the stripped, lowercased string
parse_found(schedule, today, found) ==
  IF ~found.match.matched
  THEN Returned(create_basic_schedule(schedule, today))
  ELSE parse_groups(schedule, today, found.pattern_type, found.match.groups)

parse_lowered(schedule, today) ==
  parse_found(schedule, today,
              first_match(pattern_search(0, schedule),
                          pattern_search(1, schedule),
                          pattern_search(2, schedule)))

parse_schedule_string(schedule_in, today) ==
  IF schedule_in = None \/ strip(schedule_in) = <<>>
  THEN Returned(create_empty_schedule)
  ELSE parse_lowered(lower(strip(schedule_in)), today)

\* HH:MM with HH in 00..23 and MM in 00..59
IsClockTime(t) ==
  /\ Len(t) = 5
  /\ t[3] = ":"
  /\ IsNumeral(SubSeq(t, 1, 2)) /\ int(SubSeq(t, 1, 2)) <= 23
  /\ IsNumeral(SubSeq(t, 4, 5)) /\ int(SubSeq(t, 4, 5)) <= 59

\* ------------------------------------------------------------------------
\* validate_target_date and get_next_available_dates
\* ------------------------------------------------------------------------
\* time.fromisoformat(t) of an HH:MM string, as <<hour, minute>>
time_fromisoformat(t) == <<int(SubSeq(t, 1, 2)), int(SubSeq(t, 4, 5))>>

\* seconds since midnight of a time <<hour, minute>> or <<hour, minute, second>>
seconds_of(t) == (t[1] * 60 + t[2]) * 60 + (IF Len(t) = 3 THEN t[3] ELSE 0)

abs(x) == IF x < 0 THEN -x ELSE x

\* date.weekday() taken for date.isoweekday(): Monday is 1
weekday_iso(d) == (d % 7) + 1

\* date.weekday(): Monday is 0
weekday(d) == d % 7

lower_all(names) == {lower(names[i]) : i \in 1..Len(names)}

\* in_exceptions, with the check left out
in_exceptions_ignored(target_date, exceptions) == FALSE

\* the target date is listed in the exceptions
in_exceptions(target_date, exceptions) == isoformat(target_date) \in exceptions

\* after_end, rejecting the end date itself
after_end_or_on(target_date, end_date_str) ==
  end_date_str # None /\ target_date >= fromisoformat(end_date_str)

\* the target date lies after the end of the date range
after_end(target_date, end_date_str) ==
  end_date_str # None /\ target_date > fromisoformat(end_date_str)

\* the target date lies before the start of the date range
before_start(target_date, start_date_str) ==
  start_date_str # None /\ target_date < fromisoformat(start_date_str)

\* class_schedule when it is None or {}: every .get() gives its default
no_schedule ==
  [type |-> "",
   original_schedule |-> None,
   pattern |-> [days |-> <<>>, time |-> None, duration_minutes |-> 0,
                timezone |-> "", description |-> None],
   date_range |-> [start_date |-> None, end_date |-> None],
   exceptions |-> {}]

\* unstructured, for a missing record only
unstructured_missing_only(class_schedule) == class_schedule = no_schedule

\* not class_schedule or class_schedule.get("type") != "weekly_recurring"
unstructured(class_schedule) ==
  class_schedule = no_schedule \/ class_schedule.type # "weekly_recurring"

\* no_day_restriction, never granted
no_day_restriction_never(valid_days) == FALSE

\* not valid_days
no_day_restriction(valid_days) == valid_days = <<>>

validate_target_date(class_schedule, target_date, target_time) ==
  IF unstructured(class_schedule) THEN Returned(TRUE)
  ELSE
    LET pattern == class_schedule.pattern
        valid_days == pattern.days
        target_day_name == get_day_name_from_number(weekday(target_date))
        start_date_str == class_schedule.date_range.start_date
        end_date_str == class_schedule.date_range.end_date
    IN
    IF no_day_restriction(valid_days) THEN Returned(TRUE)
    ELSE IF lower(target_day_name) \notin lower_all(valid_days)
    THEN Returned(FALSE)
    ELSE IF before_start(target_date, start_date_str) THEN Returned(FALSE)
    ELSE IF after_end(target_date, end_date_str) THEN Returned(FALSE)
    ELSE IF in_exceptions(target_date, class_schedule.exceptions)
    THEN Returned(FALSE)
    ELSE IF target_time # None /\ pattern.time # None
    THEN IF ~IsClockTime(pattern.time) THEN Raised
         ELSE Returned(
                abs(seconds_of(target_time)
                      - seconds_of(time_fromisoformat(pattern.time))) <= 900)
    ELSE Returned(TRUE)

\* valid_weekdays_of, numbering the week from Sunday = 0
RECURSIVE valid_weekdays_of_sunday_first(_)
valid_weekdays_of_sunday_first(valid_days) ==
  IF Len(valid_days) = 0 THEN <<>>
  ELSE (IF lower(valid_days[1]) \in DOMAIN DAYS_MAP
        THEN <<(DAYS_MAP[lower(valid_days[1])] + 1) % 7>> ELSE <<>>)
         \o valid_weekdays_of_sunday_first(Tail(valid_days))

\* the weekday numbers of the day names that are keys of DAYS_MAP
RECURSIVE valid_weekdays_of(_)
valid_weekdays_of(valid_days) ==
  IF Len(valid_days) = 0 THEN <<>>
  ELSE (IF lower(valid_days[1]) \in DOMAIN DAYS_MAP
        THEN <<DAYS_MAP[lower(valid_days[1])]>> ELSE <<>>)
         \o valid_weekdays_of(Tail(valid_days))

KnownZones == {"America/New_York", "UTC"}

within_end_exclusive(current_date, end_date) ==
  end_date = None \/ current_date < end_date[1]

\* end_date is None or current_date <= end_date
within_end(current_date, end_date) ==
  end_date = None \/ current_date <= end_date[1]

\* the while loop of get_next_available_dates over the locals set before it
RECURSIVE scan_dates(_, _, _, _, _, _, _, _, _)
scan_dates(valid_weekdays, class_time, tz, exceptions, end_date, limit, current_date, days_checked, available_dates) ==
  IF ~(Len(available_dates) < limit /\ days_checked < limit * 10)
  THEN available_dates
  ELSE
    LET emit == /\ \E i \in 1..Len(valid_weekdays) :
                     valid_weekdays[i] = weekday(current_date)
                /\ isoformat(current_date) \notin exceptions
                /\ within_end(current_date, end_date)
    IN  scan_dates(valid_weekdays, class_time, tz, exceptions, end_date,
                   limit, current_date + 1, days_checked + 1,
                   IF emit
                   THEN Append(available_dates,
                               [date |-> current_date, time |-> class_time,
                                tz |-> tz])
                   ELSE available_dates)

\* time.fromisoformat(class_time_str), or 09:00 when it raises ValueError
class_time_of(class_time_str) ==
  IF IsClockTime(class_time_str) THEN time_fromisoformat(class_time_str)
  ELSE <<9, 0>>

get_next_available_dates(class_schedule, from_date, limit) ==
  IF unstructured(class_schedule) THEN <<>>
  ELSE IF class_schedule.pattern.days = <<>> THEN <<>>
  ELSE IF valid_weekdays_of(class_schedule.pattern.days) = <<>> THEN <<>>
  ELSE scan_dates(
         valid_weekdays_of(class_schedule.pattern.days),
         class_time_of(IF class_schedule.pattern.time = None
                       THEN fmt02d(9) \o <<":">> \o fmt02d(0)
                       ELSE class_schedule.pattern.time),
         IF class_schedule.pattern.timezone \in KnownZones
         THEN class_schedule.pattern.timezone ELSE default_timezone,
         class_schedule.exceptions,
         IF class_schedule.date_range.end_date = None THEN None
         ELSE <<fromisoformat(class_schedule.date_range.end_date)>>,
         limit, from_date, 0, <<>>)

\* ------------------------------------------------------------------------
\* RegistrationService
\* ------------------------------------------------------------------------
\* an optional date: None, or the date d
Some(d) == <<d>>

CountedStatuses_all == {"confirmed", "waitlist", "pending_payment", "cancelled"}

\* the statuses that hold a place
CountedStatuses == {"confirmed", "waitlist", "pending_payment"}

\* validate_registration_capacity: <<is_available, current_count>>;
\* class_capacity maps the ids of the stored classes to their capacity
validate_registration_capacity(class_id, target_date, class_capacity, stored) ==
  IF class_id \notin DOMAIN class_capacity THEN <<FALSE, 0>>
  ELSE
    LET current_count ==
          Cardinality({r \in stored :
                         /\ r.class_id = class_id
                         /\ r.target_date = target_date
                         /\ r.status \in CountedStatuses})
    IN  <<current_count < class_capacity[class_id], current_count>>

\* the status a new registration starts in
initial_status(has_price) == IF has_price THEN "pending_payment" ELSE "confirmed"

first_two(available_dates) ==
  SubSeq(available_dates, 1, IF Len(available_dates) < 2 THEN Len(available_dates) ELSE 2)

\* available_dates[:3]
first_three(available_dates) ==
  SubSeq(available_dates, 1, IF Len(available_dates) < 3 THEN Len(available_dates) ELSE 3)

\* ------------------------------------------------------------------------
\* Schedule strings the text operations are applied to
\* ------------------------------------------------------------------------
Concat(A, B) == {a \o b : a \in A, b \in B}

\* all sequences of at most n elements of S, flattened into one string
RECURSIVE Flattened(_, _)
Flattened(S, n) ==
  IF n = 0 THEN {<<>>} ELSE {<<>>} \cup Concat(S, Flattened(S, n - 1))

xyz == <<"x","y","z">>
sam == <<"s","a","m">>
SP == <<" ">>
COLON == <<":">>

\* hours with one digit where possible, and zero-padded to two
HourTexts == {str(h) : h \in 0..MaxHour} \cup {fmt02d(h) : h \in {0, 7, 9}}
MinuteTexts == {fmt02d(0), fmt02d(5), fmt02d(30), fmt02d(59), fmt02d(99)}
Markers == {<<>>, SP \o AM, SP \o PM, lower(AM), lower(PM)}

\* one day list, every hour and minute, with and without an AM/PM marker
TimeInputs ==
  Concat({capitalize(mon) \o <<"/">> \o capitalize(wed) \o SP},
    Concat(HourTexts, Concat({COLON}, Concat(MinuteTexts, Markers))))

DayTokens == {capitalize(mon), tues, upper(wednesday), xyz}
DaySeparators == {<<"/">>, <<",", " ">>, SP}

\* day lists: up to MaxDayTokens tokens, each followed by a separator
RECURSIVE DayLists(_)
DayLists(n) ==
  IF n = 0 THEN {<<>>}
  ELSE {<<>>} \cup Concat(DayTokens, Concat(DaySeparators, DayLists(n - 1)))

\* every day list in front of a few times
DayListInputs ==
  Concat(DayLists(MaxDayTokens),
    Concat({<<"7">> \o COLON \o fmt02d(0), str(18) \o COLON \o fmt02d(30)},
           {SP \o PM, SP \o <<"-">> \o SP \o str(19) \o COLON \o fmt02d(0)}))

\* one day list in front of every shape of the time part
TimeShapeInputs ==
  Concat({upper(mon) \o <<",">> \o wed, SP \o sam \o <<"/">> \o capitalize(sun)},
    Concat({<<>>, SP, <<"\t", " ">>},
      Concat({str(12) \o COLON \o fmt02d(0), <<"6">> \o COLON \o fmt02d(45),
              <<"7">> \o COLON \o <<"5">>, str(123) \o COLON \o fmt02d(0)},
        Concat({<<>>, lower(AM), SP \o PM},
          Concat({<<>>, <<"-">> \o str(13) \o COLON \o fmt02d(15),
                  SP \o <<"-">> \o SP \o <<"5">> \o COLON \o fmt02d(30),
                  SP \o <<"-">> \o SP \o str(13)},
            Concat({<<>>, SP \o lower(PM), AM},
                   {<<>>, SP, SP \o <<"x">>}))))))

Tokens == {mon, upper(sun), lower(PM), SP, <<"/">>, <<"-">>, COLON,
           <<"7">>, fmt02d(0), <<"9">> \o COLON \o fmt02d(30)}

\* garbage: every sequence of at most MaxTokens tokens
TokenInputs == Flattened(Tokens, MaxTokens)

Schedules == TimeInputs \cup DayListInputs \cup TimeShapeInputs \cup TokenInputs

\* ------------------------------------------------------------------------
\* Stored records, dates and times the date operations are applied to
\* ------------------------------------------------------------------------
Dates == 0..MaxDate
LateDates == Dates \cup {MaxDate + 7}
TargetDates == 0..MaxDate + 7
Limits == 0..MaxLimit

\* the weekday names numbered in S, Monday first
RECURSIVE NamesOf(_)
NamesOf(S) ==
  IF S = {} THEN <<>>
  ELSE <<WeekdayNames[SetMin(S)]>> \o NamesOf(S \ {SetMin(S)})

RecordDayLists ==
  {NamesOf(S) : S \in {T \in SUBSET (1..7) : Cardinality(T) <= MaxRecordDays}}
    \cup {<<capitalize(monday), xyz>>, <<xyz>>}

WeeklyRecord(days, time, start_date, end_date, exceptions) ==
  [type |-> "weekly_recurring",
   original_schedule |-> None,
   pattern |-> [days |-> days, time |-> time, duration_minutes |-> 60,
                timezone |-> default_timezone, description |-> None],
   date_range |-> [start_date |-> start_date, end_date |-> end_date],
   exceptions |-> exceptions]

\* a record of type custom that carries the fields of a weekly one
CustomRecord(days, time, start_date, end_date, exceptions) ==
  [WeeklyRecord(days, time, start_date, end_date, exceptions)
     EXCEPT !.type = "custom"]

\* the records a class may have stored in schedule_data
Records ==
  {WeeklyRecord(days, fmt02d(7) \o COLON \o fmt02d(0), start_date, end_date,
                exceptions) :
     days \in RecordDayLists,
     start_date \in {None} \cup {isoformat(d) : d \in Dates},
     end_date \in {None} \cup {isoformat(d) : d \in LateDates},
     exceptions \in {{}} \cup {{isoformat(d)} : d \in Dates}}
    \cup {create_basic_schedule(xyz, 0), no_schedule,
          CustomRecord(<<monday>>, fmt02d(7) \o COLON \o fmt02d(0), None, None,
                       {})}

MonWedFri7AM ==
  capitalize(mon) \o <<"/">> \o capitalize(wed) \o <<"/">> \o capitalize(fri)
    \o SP \o <<"7">> \o COLON \o fmt02d(0) \o SP \o AM

\* the schedule strings of the classes whose record is parsed on demand
SampleSchedules ==
  {MonWedFri7AM,
   capitalize(tuesday) \o SP \o str(18) \o COLON \o fmt02d(0) \o SP \o <<"-">>
     \o SP \o str(19) \o COLON \o fmt02d(30),
   capitalize(mon) \o SP \o str(23) \o COLON \o fmt02d(55),
   capitalize(mon) \o SP \o str(25) \o COLON \o fmt02d(0),
   xyz}

TargetTimes == {None, <<7, 0>>}

\* target times around the quarter of an hour before and after 07:00, and
\* around midnight
ClockTimes ==
  {None, <<6, 44, 59>>, <<6, 45>>, <<7, 0>>, <<7, 10>>, <<7, 15>>,
   <<7, 15, 1>>, <<7, 20>>, <<0, 5>>, <<23, 45>>, <<18, 16>>}

\* stored records of one class, with and without a date range and an exception
ClockRecords ==
  {WeeklyRecord(<<monday, wednesday>>, fmt02d(7) \o COLON \o fmt02d(0),
                start_date, end_date, exceptions) :
     start_date \in {None, isoformat(0)},
     end_date \in {None, isoformat(MaxDate + 7)},
     exceptions \in {{}, {isoformat(0)}}}

\* records without a weekly pattern to check: none at all, of type custom,
\* or weekly with no days; some carry a date range, an exception and a time
\* that a weekly record would reject Monday 2024-04-29 for
UnrestrictedRecords ==
  {no_schedule} \cup
  {CustomRecord(<<wednesday>>, fmt02d(7) \o COLON \o fmt02d(0), start_date,
                end_date, exceptions) :
     start_date \in {None, isoformat(1)},
     end_date \in {None, isoformat(0)},
     exceptions \in {{}, {isoformat(0)}}} \cup
  {WeeklyRecord(<<>>, fmt02d(7) \o COLON \o fmt02d(0), start_date, end_date,
                exceptions) :
     start_date \in {None, isoformat(1)},
     end_date \in {None, isoformat(0)},
     exceptions \in {{}, {isoformat(0)}}}

\* ------------------------------------------------------------------------
\* State
\* ------------------------------------------------------------------------
VARIABLES
  schedule,      \* the schedule string handed to the text operations
  calls,         \* the operations applied so far, in order
  normalized,    \* outcome of normalize_schedule(schedule)
  renormalized,  \* outcome of normalize_schedule(normalized)
  parsed,        \* outcome of parse_schedule_string(schedule)
  reparsed,      \* outcome of parse_schedule_string(normalized)
  today,         \* date.today() as last read
  source,        \* the schedule string the record was parsed from, or None
  record,        \* the structured record (class_schedule) in use, or None
  phase,         \* "stored", "parsed", "validated" or "enumerated"
  target_date,   \* arguments and outcome of validate_target_date
  target_time,
  validated,
  from_date,     \* arguments and result of get_next_available_dates
  limit,
  dates,
  capacity,      \* YogaClass.capacity of every class
  has_price,     \* whether the class has a positive price (CNY or USD)
  registrations, \* the committed rows of the registrations table
  pc,            \* where each booking request stands
  req,           \* the class and date each request asks for
  outcome,       \* what each finished request returned or raised
  yoga_classes,  \* the rows of the classes table: schedule and schedule_data
  response,      \* what the last class-management call answered
  current_date,  \* locals of the scan loop of get_next_available_dates
  days_checked,
  payments,      \* the rows of the payments table
  payment_call   \* the last call on a payment or registration status

textVars == <<schedule, calls, normalized, renormalized, parsed, reparsed>>
occurVars == <<today, source, record, phase, target_date, target_time,
               validated, from_date, limit, dates>>
regVars == <<capacity, has_price, registrations, pc, req, outcome>>
classVars == <<yoga_classes, response>>
scanVars == <<current_date, days_checked>>
payVars == <<payments, payment_call>>
vars == <<textVars, occurVars, regVars, classVars, scanVars, payVars>>

Classes == {"hatha", "yin"}
Requests == 1..MaxRequests

NoRequest == [class_id |-> "", target_date |-> None, target_time |-> None]
NoOutcome == [kind |-> "none", status |-> "", current_count |-> 0,
              available_dates |-> <<>>]

TextIdle ==
  /\ schedule = <<>>
  /\ calls = <<>>
  /\ normalized = Returned(None)
  /\ renormalized = Returned(None)
  /\ parsed = Returned(create_empty_schedule)
  /\ reparsed = Returned(create_empty_schedule)

OccurIdle ==
  /\ today = 0
  /\ source = None
  /\ record = create_empty_schedule
  /\ phase = "stored"
  /\ target_date = 0
  /\ target_time = None
  /\ validated = Returned(TRUE)
  /\ from_date = 0
  /\ limit = 0
  /\ dates = <<>>

NoResponse == [op |-> "none", schedule |-> None, status |-> ""]

ClassIdle ==
  /\ yoga_classes = [c \in Classes |-> None]
  /\ response = NoResponse

NoPaymentCall == [op |-> "none", payment_id |-> 0, raised |-> FALSE, detail |-> ""]

ScanIdle ==
  /\ current_date = 0
  /\ days_checked = 0

PayIdle ==
  /\ payments = {}
  /\ payment_call = NoPaymentCall

RegIdle ==
  /\ capacity = [c \in Classes |-> 1]
  /\ has_price = [c \in Classes |-> FALSE]
  /\ registrations = {}
  /\ pc = [p \in Requests |-> "idle"]
  /\ req = [p \in Requests |-> NoRequest]
  /\ outcome = [p \in Requests |-> NoOutcome]

\* ------------------------------------------------------------------------
\* The text operations applied to one schedule string
\* ------------------------------------------------------------------------
TextInit ==
  /\ ScanIdle
  /\ PayIdle
  /\ ClassIdle
  /\ schedule \in Schedules
  /\ calls = <<>>
  /\ normalized = Returned(None)
  /\ renormalized = Returned(None)
  /\ parsed = Returned(create_empty_schedule)
  /\ reparsed = Returned(create_empty_schedule)
  /\ OccurIdle
  /\ RegIdle

Normalize ==
  /\ calls = <<>>
  /\ normalized' = normalize_schedule(schedule)
  /\ calls' = <<"normalize">>
  /\ UNCHANGED <<scanVars, payVars, classVars, schedule, renormalized, parsed, reparsed, occurVars,
                 regVars>>

Renormalize ==
  /\ calls = <<"normalize">>
  /\ ~normalized.raised
  /\ renormalized' = normalize_schedule(normalized.value)
  /\ calls' = Append(calls, "renormalize")
  /\ UNCHANGED <<scanVars, payVars, classVars, schedule, normalized, parsed, reparsed, occurVars, regVars>>

Parse ==
  /\ Len(calls) = 2
  /\ parsed' = parse_schedule_string(schedule, today)
  /\ calls' = Append(calls, "parse")
  /\ UNCHANGED <<scanVars, payVars, classVars, schedule, normalized, renormalized, reparsed, occurVars,
                 regVars>>

\* the class is stored with the normalized string, which is then parsed
ParseNormalized ==
  /\ Len(calls) = 3
  /\ ~normalized.raised
  /\ reparsed' = parse_schedule_string(normalized.value, today)
  /\ calls' = Append(calls, "parse_normalized")
  /\ UNCHANGED <<scanVars, payVars, classVars, schedule, normalized, renormalized, parsed, occurVars,
                 regVars>>

TextNext == Normalize \/ Renormalize \/ Parse \/ ParseNormalized

SpecText == TextInit /\ [][TextNext]_vars

\* ------------------------------------------------------------------------
\* The date operations applied to one class's record
\* ------------------------------------------------------------------------
OccurInit ==
  /\ ScanIdle
  /\ PayIdle
  /\ ClassIdle
  /\ TextIdle
  /\ RegIdle
  /\ today = 0
  /\ source = None
  /\ record \in Records \cup {None}
  /\ phase = "stored"
  /\ target_date = 0
  /\ target_time = None
  /\ validated = Returned(TRUE)
  /\ from_date = 0
  /\ limit = 0
  /\ dates = <<>>

\* the class has no stored record (schedule_data is NULL): it is parsed from
\* the schedule string, reading the current date
ParseSchedule ==
  /\ phase = "stored"
  /\ record = None
  /\ \E s \in SampleSchedules, t \in Dates :
       LET result == parse_schedule_string(s, t)
       IN  /\ ~result.raised
           /\ today' = t
           /\ source' = s
           /\ record' = result.value
  /\ phase' = "parsed"
  /\ UNCHANGED <<scanVars, payVars, classVars, textVars, regVars, target_date, target_time, validated,
                 from_date, limit, dates>>

Validate ==
  /\ phase \in {"stored", "parsed"}
  /\ record # None
  /\ \E d \in TargetDates, t \in TargetTimes :
       /\ target_date' = d
       /\ target_time' = t
       /\ validated' = validate_target_date(record, d, t)
  /\ phase' = "validated"
  /\ UNCHANGED <<scanVars, payVars, classVars, textVars, regVars, today, source, record, from_date, limit,
                 dates>>

\* from_date is given by the caller, or defaults to the current date
Enumerate ==
  /\ phase \in {"stored", "parsed"}
  /\ record # None
  /\ \E given \in BOOLEAN, d \in Dates, l \in Limits :
       /\ given \/ d >= today
       /\ today' = IF given THEN today ELSE d
       /\ from_date' = d
       /\ limit' = l
       /\ dates' = get_next_available_dates(record, d, l)
  /\ phase' = "enumerated"
  /\ UNCHANGED <<scanVars, payVars, classVars, textVars, regVars, source, record, target_date, target_time,
                 validated>>

OccurNext == ParseSchedule \/ Validate \/ Enumerate

SpecOccur == OccurInit /\ [][OccurNext]_vars

\* ------------------------------------------------------------------------
\* validate_target_date with a target time, on stored and parsed records
\* ------------------------------------------------------------------------
ClockInit ==
  /\ ScanIdle
  /\ PayIdle
  /\ ClassIdle
  /\ TextIdle
  /\ RegIdle
  /\ today = 0
  /\ source = None
  /\ record \in ClockRecords \cup UnrestrictedRecords \cup {None}
  /\ phase = "stored"
  /\ target_date = 0
  /\ target_time = None
  /\ validated = Returned(TRUE)
  /\ from_date = 0
  /\ limit = 0
  /\ dates = <<>>

ValidateClock ==
  /\ phase \in {"stored", "parsed"}
  /\ record # None
  /\ \E d \in TargetDates, t \in ClockTimes :
       /\ target_date' = d
       /\ target_time' = t
       /\ validated' = validate_target_date(record, d, t)
  /\ phase' = "validated"
  /\ UNCHANGED <<scanVars, payVars, classVars, textVars, regVars, today, source, record, from_date, limit,
                 dates>>

ClockNext == ParseSchedule \/ ValidateClock

SpecClock == ClockInit /\ [][ClockNext]_vars

\* ------------------------------------------------------------------------
\* get_next_available_dates, one turn of its while loop at a time
\* ------------------------------------------------------------------------
ScanLimits == -1..MaxLimit

\* every Monday the loop can reach
Mondays == {isoformat(7 * k) : k \in 0..2 * MaxLimit}

\* records held on Mondays whose end_date or exceptions leave some, one or
\* none of them, and records the loop is never entered for
ScanRecords ==
  {WeeklyRecord(<<monday>>, fmt02d(7) \o COLON \o fmt02d(0), None, end_date,
                exceptions) :
     end_date \in {None, isoformat(0), isoformat(7)},
     exceptions \in {{}, Mondays}}
    \cup {WeeklyRecord(<<monday, wednesday>>, fmt02d(7) \o COLON \o fmt02d(0),
                       None, None, {}),
          WeeklyRecord(<<xyz>>, fmt02d(7) \o COLON \o fmt02d(0), None, None,
                       {}),
          WeeklyRecord(<<>>, fmt02d(7) \o COLON \o fmt02d(0), None, None, {}),
          no_schedule}

ScanInit ==
  /\ ScanIdle
  /\ PayIdle
  /\ ClassIdle
  /\ TextIdle
  /\ RegIdle
  /\ today = 0
  /\ source = None
  /\ record \in ScanRecords
  /\ phase = "called"
  /\ target_date = 0
  /\ target_time = None
  /\ validated = Returned(TRUE)
  /\ from_date \in Dates
  /\ limit \in ScanLimits
  /\ dates = <<>>

\* max_days_to_check, one day more
max_days_to_check_and_one(n) == n * 10 + 1

\* max_days_to_check = limit * 10
max_days_to_check(n) == n * 10

\* the three nested ifs of the loop body
session_on(class_schedule, on_date) ==
  /\ \E i \in 1..Len(valid_weekdays_of(class_schedule.pattern.days)) :
       valid_weekdays_of(class_schedule.pattern.days)[i] = weekday(on_date)
  /\ isoformat(on_date) \notin class_schedule.exceptions
  /\ \/ class_schedule.date_range.end_date = None
     \/ on_date <= fromisoformat(class_schedule.date_range.end_date)

\* datetime.combine(current_date, class_time, tz)
session_datetime(class_schedule, on_date) ==
  [date |-> on_date,
   time |-> class_time_of(IF class_schedule.pattern.time = None
                          THEN fmt02d(9) \o <<":">> \o fmt02d(0)
                          ELSE class_schedule.pattern.time),
   tz |-> IF class_schedule.pattern.timezone \in KnownZones
          THEN class_schedule.pattern.timezone ELSE default_timezone]

\* the code before the loop: the three early returns, then the locals
BeginScan ==
  /\ phase = "called"
  /\ dates' = <<>>
  /\ IF \/ unstructured(record)
        \/ record.pattern.days = <<>>
        \/ valid_weekdays_of(record.pattern.days) = <<>>
     THEN /\ phase' = "returned"
          /\ UNCHANGED scanVars
     ELSE /\ phase' = "scanning"
          /\ current_date' = from_date
          /\ days_checked' = 0
  /\ UNCHANGED <<payVars, classVars, textVars, regVars, today, source,
                 record, target_date, target_time, validated, from_date,
                 limit>>

\* one turn of the while loop
ScanStep ==
  /\ phase = "scanning"
  /\ Len(dates) < limit /\ days_checked < max_days_to_check(limit)
  /\ dates' = IF session_on(record, current_date)
              THEN Append(dates, session_datetime(record, current_date))
              ELSE dates
  /\ current_date' = current_date + 1
  /\ days_checked' = days_checked + 1
  /\ UNCHANGED <<payVars, classVars, textVars, regVars, today, source,
                 record, phase, target_date, target_time, validated,
                 from_date, limit>>

\* the loop condition is false: return available_dates
ScanReturn ==
  /\ phase = "scanning"
  /\ ~(Len(dates) < limit /\ days_checked < max_days_to_check(limit))
  /\ phase' = "returned"
  /\ UNCHANGED <<scanVars, payVars, classVars, textVars, regVars, today,
                 source, record, target_date, target_time, validated,
                 from_date, limit, dates>>

ScanNext == BeginScan \/ ScanStep \/ ScanReturn

SpecScan == ScanInit /\ [][ScanNext]_vars

\* the call runs on: synchronous code, every statement is followed by the next
FairSpecScan == SpecScan /\ WF_vars(ScanNext)

\* ------------------------------------------------------------------------
\* Booking requests against the registrations table
\* ------------------------------------------------------------------------
\* "hatha" has a stored record; "yin" has none and is parsed on demand
schedule_data_of(class_id) ==
  IF class_id = "hatha"
  THEN WeeklyRecord(<<monday, wednesday>>, fmt02d(7) \o COLON \o fmt02d(0),
                    None, None, {})
  ELSE parse_schedule_string(MonWedFri7AM, today).value

RegInit ==
  /\ ScanIdle
  /\ PayIdle
  /\ ClassIdle
  /\ TextIdle
  /\ OccurIdle
  /\ capacity \in [Classes -> 1..MaxCapacity]
  /\ has_price \in [Classes -> BOOLEAN]
  /\ registrations = {}
  /\ pc = [p \in Requests |-> "idle"]
  /\ req = [p \in Requests |-> NoRequest]
  /\ outcome = [p \in Requests |-> NoOutcome]

Fail(p, kind, current_count, available_dates) ==
  /\ pc' = [pc EXCEPT ![p] = "failed"]
  /\ outcome' = [outcome EXCEPT ![p] =
                   [kind |-> kind, status |-> "",
                    current_count |-> current_count,
                    available_dates |-> available_dates]]

\* create_registration_with_schedule up to its last query: load the class,
\* validate the target date, count the bookings of that class and date
BeginCreate(p) ==
  /\ pc[p] = "idle"
  /\ \E c \in Classes, d \in {None} \cup {Some(x) : x \in Dates},
        t \in {None, <<7, 0>>} :
       /\ req' = [req EXCEPT ![p] =
                    [class_id |-> c, target_date |-> d, target_time |-> t]]
       /\ IF d = None
          THEN /\ pc' = [pc EXCEPT ![p] = "checked"]
               /\ outcome' = outcome
          ELSE
            LET valid == validate_target_date(schedule_data_of(c), d[1], t)
                room == validate_registration_capacity(c, d, capacity,
                                                       registrations)
            IN
            IF valid.raised THEN Fail(p, "error", 0, <<>>)
            ELSE IF ~valid.value
            THEN Fail(p, "invalid_date", 0,
                      first_three(get_next_available_dates(
                                    schedule_data_of(c), today, 5)))
            ELSE IF ~room[1] THEN Fail(p, "class_full", room[2], <<>>)
            ELSE /\ pc' = [pc EXCEPT ![p] = "checked"]
                 /\ outcome' = [outcome EXCEPT ![p].current_count = room[2]]
  /\ UNCHANGED <<scanVars, payVars, classVars, textVars, occurVars, capacity, has_price, registrations>>

\* the rest of create_registration_with_schedule: add the row and commit
CommitCreate(p) ==
  /\ pc[p] = "checked"
  /\ registrations' = registrations \cup
       {[id |-> p, class_id |-> req[p].class_id,
         target_date |-> req[p].target_date,
         target_time |-> req[p].target_time,
         status |-> initial_status(has_price[req[p].class_id])]}
  /\ pc' = [pc EXCEPT ![p] = "done"]
  /\ outcome' = [outcome EXCEPT
                   ![p].kind = "created",
                   ![p].status = initial_status(has_price[req[p].class_id])]
  /\ UNCHANGED <<scanVars, payVars, classVars, textVars, occurVars, capacity, has_price, req>>

RegNext == \E p \in Requests : BeginCreate(p) \/ CommitCreate(p)

SpecReg == RegInit /\ [][RegNext]_vars

\* ------------------------------------------------------------------------
\* Bookings and status changes served one after the other
\* ------------------------------------------------------------------------
\* rows stored by earlier bookings of "hatha" (Monday and Wednesday 07:00):
\* two for Monday 2024-04-29, one of them cancelled, and one for the Tuesday,
\* booked before the schedule was edited
StoredRows ==
  {[id |-> MaxRequests + 1, class_id |-> "hatha", target_date |-> Some(0),
    target_time |-> None, status |-> "confirmed"],
   [id |-> MaxRequests + 2, class_id |-> "hatha", target_date |-> Some(0),
    target_time |-> None, status |-> "cancelled"],
   [id |-> MaxRequests + 3, class_id |-> "hatha", target_date |-> Some(1),
    target_time |-> None, status |-> "waitlist"]}

\* the four statuses the admin endpoint accepts
valid_statuses == {"confirmed", "waitlist", "cancelled", "pending_payment"}

\* a payment row exists for every registration of a class that has a price
has_payment(r) == has_price[r.class_id]

DeskInit ==
  /\ ScanIdle
  /\ PayIdle
  /\ ClassIdle
  /\ TextIdle
  /\ OccurIdle
  /\ capacity \in [Classes -> 1..MaxCapacity]
  /\ has_price \in [Classes -> BOOLEAN]
  /\ registrations \in SUBSET StoredRows
  /\ pc = [p \in Requests |-> "idle"]
  /\ req = [p \in Requests |-> NoRequest]
  /\ outcome = [p \in Requests |-> NoOutcome]

\* create_registration_with_schedule once the date was validated and the
\* bookings counted: the outcome it returns or raises
outcome_of(valid, room, c, now, priced) ==
  IF valid.raised
  THEN [kind |-> "error", status |-> "", current_count |-> 0,
        available_dates |-> <<>>]
  ELSE IF ~valid.value
  THEN [kind |-> "invalid_date", status |-> "", current_count |-> 0,
        available_dates |->
          first_three(get_next_available_dates(schedule_data_of(c), now, 5))]
  ELSE IF ~room[1]
  THEN [kind |-> "class_full", status |-> "", current_count |-> room[2],
        available_dates |-> <<>>]
  ELSE [kind |-> "created", status |-> initial_status(priced[c]),
        current_count |-> room[2], available_dates |-> <<>>]

\* what create_registration_with_schedule does with the table as it stands
create_outcome(c, d, t, now, class_capacity, priced, stored) ==
  IF d = None
  THEN [kind |-> "created", status |-> initial_status(priced[c]),
        current_count |-> 0, available_dates |-> <<>>]
  ELSE outcome_of(validate_target_date(schedule_data_of(c), d[1], t),
                  validate_registration_capacity(c, d, class_capacity, stored),
                  c, now, priced)

\* the request is answered: a created registration is added and committed
Answer(p, c, d, result) ==
  /\ req' = [req EXCEPT ![p] =
               [class_id |-> c, target_date |-> d, target_time |-> None]]
  /\ outcome' = [outcome EXCEPT ![p] = result]
  /\ pc' = [pc EXCEPT ![p] =
              IF result.kind = "created" THEN "done" ELSE "failed"]
  /\ registrations' =
       IF result.kind = "created"
       THEN registrations \cup
              {[id |-> p, class_id |-> c, target_date |-> d,
                target_time |-> None, status |-> result.status]}
       ELSE registrations

\* one whole call of create_registration_with_schedule, the first of the run
CreateRegistration(p) ==
  /\ \A q \in Requests : pc[q] = "idle"
  /\ \A q \in Requests : p <= q
  /\ \E c \in Classes, d \in {None} \cup {Some(x) : x \in Dates} :
       Answer(p, c, d, create_outcome(c, d, None, today, capacity, has_price,
                                      registrations))
  /\ UNCHANGED <<scanVars, payVars, classVars, textVars, occurVars, capacity, has_price>>

\* registration.status = new_status on the row with this id
with_status(stored, id, new_status) ==
  {[r EXCEPT !.status = IF r.id = id THEN new_status ELSE r.status] :
     r \in stored}

\* PaymentService.confirm_payment on the payment of registration r
ConfirmPayment(r) ==
  /\ r \in registrations
  /\ has_payment(r)
  /\ registrations' = with_status(registrations, r.id, "confirmed")
  /\ UNCHANGED <<scanVars, payVars, classVars, textVars, occurVars, capacity, has_price, pc, req, outcome>>

\* PaymentService.cancel_payment on the payment of registration r
CancelPayment(r) ==
  /\ r \in registrations
  /\ has_payment(r)
  /\ registrations' = with_status(registrations, r.id, "cancelled")
  /\ UNCHANGED <<scanVars, payVars, classVars, textVars, occurVars, capacity, has_price, pc, req, outcome>>

\* the admin endpoint PUT /registrations/{id}/status with a valid status
UpdateRegistrationStatus(r, new_status) ==
  /\ r \in registrations
  /\ new_status \in valid_statuses
  /\ registrations' = with_status(registrations, r.id, new_status)
  /\ UNCHANGED <<scanVars, payVars, classVars, textVars, occurVars, capacity, has_price, pc, req, outcome>>

DeskNext ==
  \/ \E p \in Requests : CreateRegistration(p)
  \/ \E r \in registrations : ConfirmPayment(r)
  \/ \E r \in registrations : CancelPayment(r)
  \/ \E r \in registrations, new_status \in valid_statuses :
       UpdateRegistrationStatus(r, new_status)

SpecDesk == DeskInit /\ [][DeskNext]_vars

\* ------------------------------------------------------------------------
\* PaymentService: confirming and cancelling payments
\* ------------------------------------------------------------------------
\* two registrations of a priced class awaiting payment
AwaitingPayment ==
  {[id |-> i, class_id |-> "hatha", target_date |-> Some(0),
    target_time |-> None, status |-> "pending_payment"] : i \in 1..2}

\* the payments created for them, a second payment for the first, and a
\* package payment, which has no registration
StoredPayments ==
  {[id |-> 1, registration_id |-> Some(1), status |-> "pending"],
   [id |-> 2, registration_id |-> Some(2), status |-> "pending"],
   [id |-> 3, registration_id |-> Some(1), status |-> "pending"],
   [id |-> 4, registration_id |-> None, status |-> "pending"]}

PaymentIds == {p.id : p \in StoredPayments}

PayInit ==
  /\ ScanIdle
  /\ ClassIdle
  /\ TextIdle
  /\ OccurIdle
  /\ capacity = [c \in Classes |-> 1]
  /\ has_price = [c \in Classes |-> TRUE]
  /\ registrations = AwaitingPayment
  /\ pc = [p \in Requests |-> "idle"]
  /\ req = [p \in Requests |-> NoRequest]
  /\ outcome = [p \in Requests |-> NoOutcome]
  /\ payments \in SUBSET StoredPayments
  /\ payment_call = NoPaymentCall

\* linked_registration, never found
linked_registration_unread(payment, stored) == {}

\* the registration selected by payment.registration_id, if it is set
linked_registration(payment, stored) ==
  IF payment.registration_id = None THEN {}
  ELSE {r \in stored : Some(r.id) = payment.registration_id}

\* what confirm_payment and cancel_payment share: select the payment, raise
\* when there is none, set its status and that of its registration, commit
settle_payment(op, payment_id, found, new_status) ==
  IF found = {}
  THEN /\ payment_call' = [op |-> op, payment_id |-> payment_id,
                           raised |-> TRUE, detail |-> "Payment not found"]
       /\ UNCHANGED <<payments, registrations>>
  ELSE /\ payments' = with_status(payments, payment_id, new_status)
       /\ registrations' =
            {IF \E p \in found : r \in linked_registration(p, registrations)
             THEN [r EXCEPT !.status = new_status] ELSE r :
               r \in registrations}
       /\ payment_call' = [op |-> op, payment_id |-> payment_id,
                           raised |-> FALSE, detail |-> ""]

confirm_payment(payment_id) ==
  /\ settle_payment("confirm_payment", payment_id,
                    {p \in payments : p.id = payment_id}, "confirmed")
  /\ UNCHANGED <<scanVars, classVars, textVars, occurVars, capacity,
                 has_price, pc, req, outcome>>

cancel_payment(payment_id) ==
  /\ settle_payment("cancel_payment", payment_id,
                    {p \in payments : p.id = payment_id}, "cancelled")
  /\ UNCHANGED <<scanVars, classVars, textVars, occurVars, capacity,
                 has_price, pc, req, outcome>>

\* the admin endpoint PUT /registrations/{id}/status, which writes to the
\* registration alone
update_registration_status(r, new_status) ==
  /\ r \in registrations
  /\ new_status \in valid_statuses
  /\ registrations' = with_status(registrations, r.id, new_status)
  /\ payment_call' = [op |-> "update_registration_status", payment_id |-> 0,
                      raised |-> FALSE, detail |-> ""]
  /\ UNCHANGED <<scanVars, classVars, textVars, occurVars, capacity,
                 has_price, pc, req, outcome, payments>>

PayNext ==
  \/ \E payment_id \in PaymentIds : confirm_payment(payment_id)
  \/ \E payment_id \in PaymentIds : cancel_payment(payment_id)
  \/ \E r \in registrations, new_status \in valid_statuses :
       update_registration_status(r, new_status)

SpecPay == PayInit /\ [][PayNext]_vars

\* ------------------------------------------------------------------------
\* Class management: the classes table under the admin endpoints,
\* ensure_schedule_data_exists and migration 004
\* ------------------------------------------------------------------------
\* the canonical regex applied to what normalize_schedule returned
checked(normalized_out) ==
  IF normalized_out.raised THEN Raised
  ELSE IF ~CANONICAL_RE(normalized_out.value) THEN Raised
  ELSE normalized_out

validate_schedule_unchecked(v) == normalize_schedule(v)

\* YogaClassCreate.validate_schedule: the normalized string, or ValueError
\* when it does not match the canonical regex
validate_schedule(v) == checked(normalize_schedule(v))

\* a row of the classes table; schedule_data is None while the column is NULL
ClassRow(schedule_text, schedule_data, origin) ==
  [schedule |-> schedule_text, schedule_data |-> schedule_data,
   origin |-> origin]

\* json.loads(json.dumps(parsed_schedule)) of a record the parser returned
parsed_record(schedule_text, now) ==
  parse_schedule_string(schedule_text, now).value

TuesdayEvening ==
  capitalize(tuesday) \o SP \o str(18) \o COLON \o fmt02d(0) \o SP \o <<"-">>
    \o SP \o str(19) \o COLON \o fmt02d(30)

\* schedule strings of classes stored before the canonical format was
\* enforced
LegacySchedules ==
  {MonWedFri7AM, TuesdayEvening, upper(mon) \o <<",">> \o wed \o SP \o <<"6">> \o COLON \o fmt02d(45)}

\* schedule strings an administrator submits
Submissions == SampleSchedules

ClassInit ==
  /\ ScanIdle
  /\ PayIdle
  /\ TextIdle
  /\ OccurIdle
  /\ RegIdle
  /\ yoga_classes \in
       [Classes -> {None} \cup {ClassRow(s, None, "legacy") :
                                  s \in LegacySchedules}]
  /\ response = NoResponse

Respond(op, submitted, status) ==
  response' = [op |-> op, schedule |-> submitted, status |-> status]

\* the row create_class and update_class write for a validated schedule
admin_row(canonical, now) ==
  ClassRow(canonical, parsed_record(canonical, now), "admin")

\* the body was validated: the handler stores the row, or answers 404 when
\* the class (on update), the teacher or the yoga type is missing
Handle(op, c, submitted, found, body) ==
  IF body.raised
  THEN /\ Respond(op, submitted, "rejected")
       /\ UNCHANGED yoga_classes
  ELSE IF ~found
  THEN /\ Respond(op, submitted, "not_found")
       /\ UNCHANGED yoga_classes
  ELSE /\ Respond(op, submitted, "ok")
       /\ yoga_classes' = [yoga_classes EXCEPT ![c] = admin_row(body.value, today)]

\* POST /classes: found is whether the teacher and the yoga type of the body
\* exist
CreateClass(c, submitted, found) ==
  /\ yoga_classes[c] = None
  /\ Handle("create_class", c, submitted, found, validate_schedule(submitted))
  /\ UNCHANGED <<scanVars, payVars, textVars, occurVars, regVars>>

\* PUT /classes/{class_id}
UpdateClass(c, submitted, found) ==
  /\ Handle("update_class", c, submitted, found /\ yoga_classes[c] # None,
            validate_schedule(submitted))
  /\ UNCHANGED <<scanVars, payVars, textVars, occurVars, regVars>>

\* RegistrationService.ensure_schedule_data_exists(class_id)
EnsureScheduleData(c) ==
  /\ IF yoga_classes[c] = None
     THEN /\ Respond("ensure_schedule_data_exists", None, "not_found")
          /\ UNCHANGED yoga_classes
     ELSE IF yoga_classes[c].schedule_data # None
     THEN /\ Respond("ensure_schedule_data_exists", None, "ok")
          /\ UNCHANGED yoga_classes
     ELSE /\ Respond("ensure_schedule_data_exists", None, "ok")
          /\ yoga_classes' =
               [yoga_classes EXCEPT ![c].schedule_data =
                  parsed_record(yoga_classes[c].schedule, today)]
  /\ UNCHANGED <<scanVars, payVars, textVars, occurVars, regVars>>

\* the schedule column of one row after migration 004
upgraded(row) ==
  IF row = None THEN row
  ELSE IF row.schedule = <<>> THEN row
  ELSE [row EXCEPT !.schedule = normalize_schedule(row.schedule).value]

\* alembic upgrade 004_standardize_schedule: every row's schedule is
\* normalized
Upgrade004 ==
  /\ yoga_classes' = [c \in Classes |-> upgraded(yoga_classes[c])]
  /\ Respond("upgrade", None, "ok")
  /\ UNCHANGED <<scanVars, payVars, textVars, occurVars, regVars>>

ClassNext ==
  \/ \E c \in Classes, submitted \in Submissions, found \in BOOLEAN :
       CreateClass(c, submitted, found)
  \/ \E c \in Classes, submitted \in Submissions, found \in BOOLEAN :
       UpdateClass(c, submitted, found)
  \/ \E c \in Classes : EnsureScheduleData(c)
  \/ Upgrade004

SpecClass == ClassInit /\ [][ClassNext]_vars

\* ------------------------------------------------------------------------
\* Properties of the text operations (SpecText)
\* ------------------------------------------------------------------------
Normalized == Len(calls) >= 1
Renormalized == Len(calls) >= 2
Parsed == Len(calls) >= 3

WeekdayNameSet == {WeekdayNames[i] : i \in 1..7}

\* C6: parse_schedule_string never raises; it returns a record of type
\* weekly_recurring or custom, and a weekly_recurring record has a non-empty
\* days list made of the seven full lowercase weekday names only.
C6_ParseTotal ==
  Parsed =>
    /\ ~parsed.raised
    /\ parsed.value.type \in {"weekly_recurring", "custom"}
    /\ parsed.value.type = "weekly_recurring" =>
         /\ Len(parsed.value.pattern.days) > 0
         /\ \A i \in 1..Len(parsed.value.pattern.days) :
              parsed.value.pattern.days[i] \in WeekdayNameSet

\* an abbreviated day token was parsed into a weekly record of two days
C6_Witness ==
  /\ Parsed
  /\ ~parsed.raised
  /\ parsed.value.type = "weekly_recurring"
  /\ parsed.value.pattern.days = <<monday, tuesday>>

\* C7: the time of every weekly_recurring record that parse_schedule_string
\* returns is a valid 24-hour clock value HH:MM.
C7_ParseTimeValid ==
  (Parsed /\ ~parsed.raised /\ parsed.value.type = "weekly_recurring")
    => IsClockTime(parsed.value.pattern.time)

\* C8: normalizing the result of normalize_schedule returns it unchanged.
C8_NormalizeIdempotent ==
  Renormalized =>
    /\ ~renormalized.raised
    /\ renormalized.value = normalized.value

\* an afternoon 24-hour input was rewritten, then normalized again
C8_Witness ==
  /\ Renormalized
  /\ normalized.value # schedule
  /\ normalized.value =
       capitalize(mon) \o <<"/">> \o capitalize(wed) \o SP
         \o <<"6">> \o COLON \o fmt02d(30) \o SP \o PM
  /\ ampm_search(schedule) = None

\* the match of '<days> H:MM - H:MM' in the trimmed, lowercased input
RangeMatch == pattern_search(0, lower(strip(schedule)))

ParsedWeekly ==
  Parsed /\ ~parsed.raised /\ parsed.value.type = "weekly_recurring"

\* minutes since midnight of hour and minute numerals
MinutesOf(hour, minute) == int(hour) * 60 + int(minute)

\* C22: a weekly record parsed from an input that matches
\* '<days> H:MM - H:MM' has the start time as pattern.time, and as
\* duration_minutes the minutes from start to end when positive and 60
\* otherwise; a weekly record parsed through the 12-hour or 24-hour pattern
\* has duration 60. The duration is always positive.
C22_RangeDuration ==
  (ParsedWeekly /\ Len(calls) = 3) =>
    LET m == RangeMatch
        g == m.groups
        span == MinutesOf(g[4], g[5]) - MinutesOf(g[2], g[3])
    IN  /\ parsed.value.pattern.duration_minutes > 0
        /\ m.matched =>
             /\ parsed.value.pattern.time
                  = fmt02d(int(g[2])) \o COLON \o g[3]
             /\ parsed.value.pattern.duration_minutes =
                  IF span > 0 THEN span ELSE 60
        /\ ~m.matched => parsed.value.pattern.duration_minutes = 60

\* a range that ends before it starts was parsed with the default duration
C22_Witness ==
  /\ ParsedWeekly
  /\ RangeMatch.matched
  /\ MinutesOf(RangeMatch.groups[4], RangeMatch.groups[5])
       < MinutesOf(RangeMatch.groups[2], RangeMatch.groups[3])
  /\ parsed.value.pattern.duration_minutes = 60

\* the first pattern that matches the trimmed, lowercased input
FirstMatch ==
  first_match(pattern_search(0, lower(strip(schedule))),
              pattern_search(1, lower(strip(schedule))),
              pattern_search(2, lower(strip(schedule))))

\* no pattern matches the input, or none of the matched day tokens is a
\* known weekday
NoPatternOrDay ==
  \/ ~FirstMatch.match.matched
  \/ \A tok \in {split(FirstMatch.match.groups[1], "/")[i] :
                   i \in 1..Len(split(FirstMatch.match.groups[1], "/"))} :
       strip(tok) \notin DOMAIN DAYS_MAP

\* C23: for every input that no pattern matches or whose day tokens name no
\* known weekday (the empty and the whitespace-only string included),
\* parse_schedule_string returns a custom record whose description is the
\* lowercased trimmed input, whose start_date is the current date, whose
\* end_date is null and which has no exceptions.
C23_CustomFallback ==
  (Parsed /\ NoPatternOrDay) =>
    /\ ~parsed.raised
    /\ parsed.value.type = "custom"
    /\ parsed.value.pattern.description = lower(strip(schedule))
    /\ parsed.value.date_range.start_date = isoformat(today)
    /\ parsed.value.date_range.end_date = None
    /\ parsed.value.exceptions = {}

\* the day list in front of the time holds a comma and names two or more
\* known days
CommaDayList ==
  LET m == normalize_match(strip(schedule))
  IN  /\ strip(schedule) # <<>>
      /\ m.matched
      /\ \E i \in 1..Len(m.days) : m.days[i] = ","
      /\ Len(day_abbrevs_of(re_split_days(m.days))) >= 2

\* C24: an input whose day list is comma-separated is parsed into the custom
\* fallback, never into a weekly_recurring record made from part of the list.
C24_CommaListFallsBack ==
  (Parsed /\ CommaDayList) =>
    /\ ~parsed.raised
    /\ parsed.value.type = "custom"

\* normalize_schedule found a day token and a start time in the input
Recognised(s) ==
  /\ strip(s) # <<>>
  /\ normalize_match(strip(s)).matched
  /\ day_abbrevs_of(re_split_days(normalize_match(strip(s)).days)) # <<>>

\* the AM/PM tokens written anywhere in s, upper-cased
AmPmTokens(s) ==
  {upper(SubSeq(s, p, p + 1)) : p \in {q \in 1..Len(s) : ampm_at(s, q)}}

\* the hour of the day meant by a written hour and the AM/PM tokens around it
HourMeant(hour, tokens) ==
  IF tokens = {PM} THEN (IF hour = 12 THEN 12 ELSE hour + 12)
  ELSE IF tokens = {AM} THEN (IF hour = 12 THEN 0 ELSE hour)
  ELSE hour

\* an hour of the day on the 12-hour clock: "H" and its suffix
TwelveHour(hour_24) ==
  IF hour_24 = 0 THEN <<str(12), AM>>
  ELSE IF hour_24 \in 1..11 THEN <<str(hour_24), AM>>
  ELSE IF hour_24 = 12 THEN <<str(12), PM>>
  ELSE <<str(hour_24 - 12), PM>>

\* the start time normalize_schedule reads in s: <<hour, minute digits>>
StartTime(s) ==
  LET parts == split(normalize_match(strip(s)).time, ":")
  IN  <<int(parts[1]), parts[2]>>

\* C25: when normalize_schedule recognises the input, the written start hour
\* is read with the AM/PM token of the input when there is one (PM adds 12
\* except to 12, 12 AM is 0) and as a 24-hour hour otherwise; an hour of the
\* day h in 0..23 is written back as 12 AM for 0, h AM for 1..11, 12 PM for
\* 12 and h-12 PM for 13..23, followed by the two minute digits as written,
\* and nothing of a range end is kept.
C25_TwelveHourTime ==
  (Len(calls) = 1 /\ Recognised(schedule)) =>
    LET tokens == AmPmTokens(strip(schedule))
        start == StartTime(schedule)
        hour_24 == HourMeant(start[1], tokens)
        shown == TwelveHour(hour_24)
        out == split(normalized.value, " ")
    IN  (Cardinality(tokens) <= 1 /\ hour_24 \in 0..23) =>
          /\ ~normalized.raised
          /\ Len(out) = 3
          /\ out[2] = shown[1] \o COLON \o start[2]
          /\ out[3] = shown[2]

\* a range with PM after its end was cut to its start time, read as PM
C25_Witness ==
  /\ Normalized
  /\ Recognised(schedule)
  /\ AmPmTokens(strip(schedule)) = {PM}
  /\ RangeMatch.matched
  /\ StartTime(schedule)[1] = 6
  /\ split(normalized.value, " ")[2] = <<"6">> \o COLON \o fmt02d(45)
  /\ split(normalized.value, " ")[3] = PM

\* the day names normalize_schedule knows: full names, three-letter
\* abbreviations, and tues and thurs
KnownDayNames ==
  {WeekdayNames[i] : i \in 1..7} \cup {lower(DAY_ABBREVS[i]) : i \in 1..7}
    \cup {tues, thurs}

IsKnownDayName(tok) == tok \in KnownDayNames

\* the known day names among the '/'- and ','-separated tokens in front of
\* the time, trimmed and lowercased, in the order they are written
WrittenDays(s) ==
  LET raw == re_split_days(normalize_match(strip(s)).days)
  IN  SelectSeq([i \in 1..Len(raw) |-> lower(strip(raw[i]))], IsKnownDayName)

ParsedBothWays == Len(calls) = 4

\* C19: when normalize_schedule turns s into a canonical string and
\* parse_schedule_string parses s itself as weekly_recurring, parsing the
\* normalized string gives the same days in the same order and the same time.
C19_NormalizePreservesMeaning ==
  (/\ ParsedBothWays
   /\ CANONICAL_RE(normalized.value)
   /\ ~parsed.raised
   /\ parsed.value.type = "weekly_recurring")
    => /\ ~reparsed.raised
       /\ reparsed.value.type = "weekly_recurring"
       /\ reparsed.value.pattern.days = parsed.value.pattern.days
       /\ reparsed.value.pattern.time = parsed.value.pattern.time

\* a Canonical Schedule String: CANONICAL_RE with an hour between 1 and 12
IsCanonicalScheduleString(s) ==
  /\ CANONICAL_RE(s)
  /\ int(split(split(s, " ")[2], ":")[1]) \in 1..12

\* C9: whenever normalize_schedule recognises a day token and a start time,
\* it returns a Canonical Schedule String (hour between 1 and 12).
C9_NormalizeCanonical ==
  (Normalized /\ Recognised(schedule)) =>
    /\ ~normalized.raised
    /\ IsCanonicalScheduleString(normalized.value)

\* some known day name is written in s (in any letter case) and an H:MM
\* time starts somewhere after it
HasDayThenTime(s) ==
  \E i \in 1..Len(s) : \E j \in i..Len(s) :
    /\ lower(SubSeq(s, i, j)) \in DOMAIN day_name_map
    /\ \E t \in j + 1..Len(s) : time_end(s, t) # 0

\* C10: normalize_schedule never raises, and an input that is empty,
\* whitespace-only or has no day token followed by an H:MM time is returned
\* as it came in, neither trimmed nor re-cased.
C10_NormalizePassThrough ==
  Normalized =>
    /\ ~normalized.raised
    /\ ~HasDayThenTime(schedule) => normalized.value = schedule

\* an upper-case day name with blanks around it and no time was passed through
C10_Witness ==
  /\ Normalized
  /\ ~HasDayThenTime(schedule)
  /\ schedule = SP \o upper(sun) \o SP
  /\ normalized.value = schedule

\* ------------------------------------------------------------------------
\* Properties of the date operations (SpecOccur)
\* ------------------------------------------------------------------------
\* date d passes the weekday, date-range and exception rules of record r
PassesDateRules(r, d) ==
  /\ WeekdayNames[(d % 7) + 1] \in lower_all(r.pattern.days)
  /\ r.date_range.start_date # None =>
       d >= fromisoformat(r.date_range.start_date)
  /\ r.date_range.end_date # None =>
       d <= fromisoformat(r.date_range.end_date)
  /\ isoformat(d) \notin r.exceptions

\* seconds between target time t and the pattern time written as HH:MM
SecondsApart(t, hhmm) ==
  LET a == t[1] * 3600 + t[2] * 60 + (IF Len(t) = 3 THEN t[3] ELSE 0)
      b == int(SubSeq(hhmm, 1, 2)) * 3600 + int(SubSeq(hhmm, 4, 5)) * 60
  IN  IF a < b THEN b - a ELSE a - b

IsMonday(d) == d % 7 = 0
IsTuesday(d) == d % 7 = 1

\* the record in use was parsed from "Mon/Wed/Fri 7:00 AM" and
\* validate_target_date was called on it with target time 07:00
ValidatedMonWedFriAt7 ==
  /\ phase = "validated"
  /\ source = MonWedFri7AM
  /\ target_time = <<7, 0>>

\* C1 (as stated): for the record parsed from "Mon/Wed/Fri 7:00 AM",
\* validate_target_date at 07:00 is true for every Monday and false for
\* every Tuesday.
C1_EveryMondayValid ==
  ValidatedMonWedFriAt7 =>
    /\ IsMonday(target_date) => validated = Returned(TRUE)
    /\ IsTuesday(target_date) => validated = Returned(FALSE)

\* C1 (amended): for the record parsed from "Mon/Wed/Fri 7:00 AM",
\* validate_target_date at 07:00 is true for every Monday on or after the
\* record's date_range.start_date and false for every Tuesday.
C1_MondayFromStartDateValid ==
  ValidatedMonWedFriAt7 =>
    /\ (/\ IsMonday(target_date)
        /\ target_date >= fromisoformat(record.date_range.start_date))
         => validated = Returned(TRUE)
    /\ IsTuesday(target_date) => validated = Returned(FALSE)

\* parsed on the first of a month, a Monday of that month was accepted
C1_Witness ==
  /\ ValidatedMonWedFriAt7
  /\ fromisoformat(record.date_range.start_date) = today
  /\ IsMonday(target_date)
  /\ target_date > today
  /\ validated = Returned(TRUE)

EnumeratedWeekly == phase = "enumerated" /\ record.type = "weekly_recurring"

\* C2: get_next_available_dates returns at most limit dates; each falls on a
\* weekday listed in the record, on or after from_date, and is not listed in
\* the record's exceptions.
C2_EnumeratorCorrect ==
  EnumeratedWeekly =>
    /\ Len(dates) <= limit
    /\ \A i \in 1..Len(dates) :
         /\ WeekdayNames[(dates[i].date % 7) + 1]
              \in lower_all(record.pattern.days)
         /\ dates[i].date >= from_date
         /\ isoformat(dates[i].date) \notin record.exceptions

\* limit dates were returned and a listed weekday inside the scanned range
\* was left out because it is an exception
C2_Witness ==
  /\ EnumeratedWeekly
  /\ limit = MaxLimit
  /\ Len(dates) = limit
  /\ \E e \in record.exceptions :
       /\ fromisoformat(e) >= from_date
       /\ fromisoformat(e) < dates[Len(dates)].date
       /\ WeekdayNames[(fromisoformat(e) % 7) + 1]
            \in lower_all(record.pattern.days)

\* C3: every date get_next_available_dates returns lies within the
\* record's date_range: not before start_date, not after end_date.
C3_EnumeratedWithinDateRange ==
  EnumeratedWeekly =>
    \A i \in 1..Len(dates) :
      /\ record.date_range.start_date # None =>
           dates[i].date >= fromisoformat(record.date_range.start_date)
      /\ record.date_range.end_date # None =>
           dates[i].date <= fromisoformat(record.date_range.end_date)

\* the dates of the scanned range from_date .. from_date + 10 * limit - 1
\* that fall on a listed weekday, are no exception and are not after end_date
Qualifying ==
  {d \in from_date..(from_date + 10 * limit - 1) :
     /\ WeekdayNames[(d % 7) + 1] \in lower_all(record.pattern.days)
     /\ isoformat(d) \notin record.exceptions
     /\ record.date_range.end_date # None =>
          d <= fromisoformat(record.date_range.end_date)}

Returned_dates == {dates[i].date : i \in 1..Len(dates)}

ValidatedOnListedDay ==
  /\ phase = "validated"
  /\ record.type = "weekly_recurring"
  /\ WeekdayNames[(target_date % 7) + 1] \in lower_all(record.pattern.days)

\* the target time, when given, is within 900 seconds of the pattern time
TimeRulePasses ==
  \/ target_time = None
  \/ record.pattern.time = None
  \/ /\ IsClockTime(record.pattern.time)
     /\ SecondsApart(target_time, record.pattern.time) <= 900

\* C12: date_range is an inclusive window. On a listed weekday,
\* validate_target_date returns false before a set start_date and after a
\* set end_date; a date from start_date to end_date, both included (a null
\* bound not restricting its side), is accepted when the exception and time
\* rules pass.
C12_DateRangeInclusive ==
  ValidatedOnListedDay =>
    LET start_date == record.date_range.start_date
        end_date == record.date_range.end_date
    IN  /\ (start_date # None /\ target_date < fromisoformat(start_date))
             => validated = Returned(FALSE)
        /\ (end_date # None /\ target_date > fromisoformat(end_date))
             => validated = Returned(FALSE)
        /\ (/\ start_date = None \/ target_date >= fromisoformat(start_date)
            /\ end_date = None \/ target_date <= fromisoformat(end_date)
            /\ isoformat(target_date) \notin record.exceptions
            /\ TimeRulePasses)
             => validated = Returned(TRUE)

\* a date that is both the start_date and the end_date was accepted
C12_Witness ==
  /\ ValidatedOnListedDay
  /\ record.date_range.start_date = isoformat(target_date)
  /\ record.date_range.end_date = isoformat(target_date)
  /\ target_time # None
  /\ validated = Returned(TRUE)

\* validate_target_date was called on a weekly record for a date listed in
\* its exceptions
ValidatedException ==
  /\ phase = "validated"
  /\ record.type = "weekly_recurring"
  /\ isoformat(target_date) \in record.exceptions

\* C13 (as stated): for every weekly record, a target date listed in the
\* record's exceptions is rejected by validate_target_date.
C13_ExceptionRejected ==
  ValidatedException => validated = Returned(FALSE)

\* C13 (amended): for every weekly record with a non-empty days list, a
\* target date listed in the record's exceptions is rejected by
\* validate_target_date.
C13_ExceptionRejectedWithDays ==
  (ValidatedException /\ record.pattern.days # <<>>)
    => validated = Returned(FALSE)

\* an exception on a listed weekday, inside the date range and at the
\* pattern time, was rejected
C13_Witness ==
  /\ ValidatedException
  /\ ValidatedOnListedDay
  /\ record.date_range.start_date = isoformat(target_date)
  /\ record.date_range.end_date # None
  /\ target_date <= fromisoformat(record.date_range.end_date)
  /\ target_time = <<7, 0>>
  /\ record.pattern.time = fmt02d(7) \o COLON \o fmt02d(0)
  /\ validated = Returned(FALSE)

\* ------------------------------------------------------------------------
\* Properties of the booking requests (SpecReg)
\* ------------------------------------------------------------------------
\* request p has finished and its target date passed validate_target_date
FinishedWithValidDate(p) ==
  /\ pc[p] \in {"done", "failed"}
  /\ req[p].target_date # None
  /\ outcome[p].kind \notin {"invalid_date", "error"}

\* C4: a request whose target date passes the validator creates a
\* registration: confirmed when the bookings counted for that class and date
\* are below capacity, and on the waitlist otherwise.
C4_ConfirmedOrWaitlist ==
  \A p \in Requests :
    FinishedWithValidDate(p) =>
      /\ outcome[p].kind = "created"
      /\ outcome[p].status =
           IF outcome[p].current_count < capacity[req[p].class_id]
           THEN "confirmed" ELSE "waitlist"

Counted(c, d) ==
  {r \in registrations :
     r.class_id = c /\ r.target_date = d /\ r.status \in CountedStatuses}

\* C5: the registrations counted for a class and date (confirmed, waitlist
\* or pending_payment) never exceed the capacity of the class, however the
\* requests interleave.
C5_CapacityNeverExceeded ==
  \A c \in Classes : \A d \in Dates :
    Cardinality(Counted(c, Some(d))) <= capacity[c]

\* ------------------------------------------------------------------------
\* Properties of bookings and status changes served in turn (SpecDesk)
\* ------------------------------------------------------------------------
\* request p is answered in this step
Answered(p) == pc[p] = "idle" /\ pc'[p] # "idle"

\* the stored rows of class c and date d that hold a place
HoldingPlace(c, d) ==
  {r \in registrations :
     /\ r.class_id = c
     /\ r.target_date = d
     /\ r.status \in {"confirmed", "waitlist", "pending_payment"}}

\* C14: the count validate_registration_capacity returns for a class and
\* date is the number of stored rows of that class and date whose status is
\* confirmed, waitlist or pending_payment (cancelled rows and rows of other
\* dates or classes are left out), and it reports a free place exactly when
\* that count is below the capacity of the class.
C14_CountsHoldingRows ==
  [][\A p \in Requests :
       (/\ Answered(p)
        /\ req'[p].target_date # None
        /\ outcome'[p].kind \in {"created", "class_full"})
         => /\ outcome'[p].current_count =
                 Cardinality(HoldingPlace(req'[p].class_id,
                                          req'[p].target_date))
            /\ outcome'[p].kind = "created" <=>
                 Cardinality(HoldingPlace(req'[p].class_id,
                                          req'[p].target_date))
                   < capacity[req'[p].class_id]]_vars

\* a booking for a Monday of "hatha" was refused as full with one row
\* counted, while a cancelled row of that Monday and a waitlist row of the
\* Tuesday are stored
C14_Witness ==
  \E p \in Requests :
    /\ pc[p] = "failed"
    /\ outcome[p].kind = "class_full"
    /\ outcome[p].current_count = 1
    /\ req[p].class_id = "hatha"
    /\ \E r \in registrations :
         /\ r.class_id = "hatha"
         /\ r.target_date = req[p].target_date
         /\ r.status = "cancelled"
    /\ \E r \in registrations :
         /\ r.class_id = "hatha"
         /\ r.target_date # req[p].target_date
         /\ r.status = "waitlist"

\* the weekdays class c is held on
ScheduledDays(c) ==
  IF c = "hatha" THEN {monday, wednesday} ELSE {monday, wednesday, friday}

OnSchedule(c, d) == WeekdayNames[(d % 7) + 1] \in ScheduledDays(c)

\* listed are the three earliest dates from today on that class c is held on
ListsUpcoming(c, listed) ==
  /\ Len(listed) = 3
  /\ \A i \in 1..Len(listed) :
       /\ listed[i].date >= today
       /\ OnSchedule(c, listed[i].date)
  /\ \A i \in 1..Len(listed) - 1 : listed[i].date < listed[i + 1].date
  /\ \A x \in today..listed[Len(listed)].date :
       OnSchedule(c, x) => \E i \in 1..Len(listed) : listed[i].date = x

C18_SerialCapacity ==
  \A c \in Classes : \A d \in Dates :
    Cardinality(HoldingPlace(c, Some(d))) <= capacity[c]

\* ------------------------------------------------------------------------
\* Properties of class management (SpecClass)
\* ------------------------------------------------------------------------
\* type, days, time and duration of a structured record
Meaning(r) ==
  <<r.type, r.pattern.days, r.pattern.time, r.pattern.duration_minutes>>

\* C16: after any sequence of create_class, update_class,
\* ensure_schedule_data_exists and migration 004, every class whose
\* schedule_data is set holds a record whose type, days, time and duration
\* are those parse_schedule_string gives for the class's current schedule
\* string.
C16_CachedRecordCurrent ==
  \A c \in Classes :
    (yoga_classes[c] # None /\ yoga_classes[c].schedule_data # None) =>
      Meaning(yoga_classes[c].schedule_data)
        = Meaning(parsed_record(yoga_classes[c].schedule, today))

ValidatedAtTime ==
  /\ phase = "validated"
  /\ record.type = "weekly_recurring"
  /\ record.pattern.time # None
  /\ target_time # None
  /\ PassesDateRules(record, target_date)

\* C11: for a weekly record with a pattern time and a date that passes the
\* weekday, date-range and exception rules, validate_target_date with a
\* target time returns false exactly when the two times are more than 900
\* seconds apart, and true otherwise.
C11_TimeWithinTolerance ==
  ValidatedAtTime =>
    validated = Returned(SecondsApart(target_time, record.pattern.time) <= 900)

\* validate_target_date was called on a record that is missing, not weekly,
\* or without days
ValidatedUnrestricted ==
  /\ phase = "validated"
  /\ \/ record = no_schedule
     \/ record.type # "weekly_recurring"
     \/ record.pattern.days = <<>>

EnumeratedUnstructured ==
  /\ phase = "enumerated"
  /\ \/ record = no_schedule
     \/ record.type # "weekly_recurring"
     \/ record.pattern.days = <<>>
     \/ \A i \in 1..Len(record.pattern.days) :
          lower(record.pattern.days[i]) \notin DOMAIN DAYS_MAP

C29_IndependentOfCurrentDate ==
  phase = "parsed" =>
    \A t \in Dates : parse_schedule_string(source, t) = Returned(record)

\* ------------------------------------------------------------------------
\* Properties of the scan loop (FairSpecScan)
\* ------------------------------------------------------------------------
\* the record is one the loop is entered for
Scanned ==
  /\ record # no_schedule
  /\ record.type = "weekly_recurring"
  /\ \E i \in 1..Len(record.pattern.days) :
       lower(record.pattern.days[i]) \in DOMAIN DAYS_MAP

\* the days examined are the days_checked days from from_date on, at most
\* limit * 10 of them, and at most limit dates are collected
ScanWithinBounds ==
  /\ phase \in {"scanning", "returned"} /\ Scanned =>
       /\ current_date = from_date + days_checked
       /\ days_checked <= (IF limit > 0 THEN limit * 10 ELSE 0)
       /\ Len(dates) <= (IF limit > 0 THEN limit ELSE 0)
  /\ phase = "returned" /\ Scanned /\ limit > 0 =>
       Len(dates) = limit \/ days_checked = limit * 10
  /\ phase = "returned" /\ limit <= 0 => dates = <<>> /\ days_checked = 0
  /\ phase = "returned" =>
       dates = get_next_available_dates(record, from_date, limit)

\* a further day is examined only while fewer than limit dates are collected
\* and fewer than limit * 10 days were examined
ScanGoesOnOnlyBelowBounds ==
  days_checked' # days_checked =>
    /\ days_checked' = days_checked + 1
    /\ Len(dates) < limit
    /\ days_checked < limit * 10

\* C21: get_next_available_dates always terminates: the loop stops as soon
\* as limit results are collected or limit * 10 consecutive calendar days
\* from from_date on were examined, whichever comes first, also when
\* end_date or the exceptions exclude every matching weekday; with
\* limit <= 0 it returns the empty list without examining a day.
C21_ScanTerminates ==
  /\ <>(phase = "returned")
  /\ []ScanWithinBounds
  /\ [][ScanGoesOnOnlyBelowBounds]_vars

\* the call returned nothing after limit * 10 days, every Monday among them
\* being an exception or after end_date
C21_Witness ==
  /\ phase = "returned"
  /\ Scanned
  /\ limit = MaxLimit
  /\ days_checked = limit * 10
  /\ dates = <<>>
  /\ record.exceptions # {} \/ record.date_range.end_date # None

\* ------------------------------------------------------------------------
\* Properties of the payment operations (SpecPay)
\* ------------------------------------------------------------------------
\* the status confirm_payment and cancel_payment leave behind
StatusSetBy(op) == IF op = "confirm_payment" THEN "confirmed" ELSE "cancelled"

\* the step is a call of confirm_payment or cancel_payment
PaymentSettled == payment_call'.op \in {"confirm_payment", "cancel_payment"}

\* C30: after confirm_payment or cancel_payment on an existing payment
\* linked to a registration, the payment and its registration carry the same
\* status (both confirmed, or both cancelled); when no payment has the id,
\* the call raises 'Payment not found' and no payment or registration is
\* changed.
C30_PaymentAndRegistrationAgree ==
  [][PaymentSettled =>
       IF \E p \in payments : p.id = payment_call'.payment_id
       THEN /\ ~payment_call'.raised
            /\ \A p \in payments' :
                 p.id = payment_call'.payment_id =>
                   /\ p.status = StatusSetBy(payment_call'.op)
                   /\ \A r \in registrations' :
                        Some(r.id) = p.registration_id =>
                          r.status = p.status
       ELSE /\ payment_call'.raised
            /\ payment_call'.detail = "Payment not found"
            /\ payments' = payments
            /\ registrations' = registrations]_vars

\* payment 3 was cancelled after payment 1 of the same registration was
\* confirmed: payment 3 and the registration are both cancelled
C30_Witness ==
  /\ payment_call = [op |-> "cancel_payment", payment_id |-> 3,
                     raised |-> FALSE, detail |-> ""]
  /\ \E p \in payments : p.id = 1 /\ p.status = "confirmed"
  /\ \E p \in payments :
       /\ p.id = 3
       /\ p.status = "cancelled"
       /\ \E r \in registrations :
            Some(r.id) = p.registration_id /\ r.status = "cancelled"

====
